---- MODULE Spec2Model ----
(***************************************************************************)
(* The time-locked vault contract of contracts/vault/src/lib.rs as a state *)
(* machine: the contract's instance storage, the balances kept by the      *)
(* token contract, the ledger time, and one action per contract entry      *)
(* point.  A panic reverts the whole invocation.                           *)
(***************************************************************************)
EXTENDS Integers, FiniteSets, Sequences, TLC

VARIABLES storage, bal, now, call, result, deposited, withdrawn, inits

vars == <<storage, bal, now, call, result, deposited, withdrawn, inits>>

(***************************************************************************)
(* Bounds of the model.                                                    *)
(***************************************************************************)
\* i128 is modelled with this many bits
I128Bits == 3
\* ledger timestamps (u64) range over 0..MaxTime
MaxTime == 1
\* amount arguments range over -1..MaxAmount
MaxAmount == 2
\* tokens each account holds at the start
InitBalance == 2
\* deposits are explored while the total deposited stays within this
MaxVolume == 3

I128_MAX == 2 ^ (I128Bits - 1) - 1
I128_MIN == -(2 ^ (I128Bits - 1))

(***************************************************************************)
(* Addresses.                                                              *)
(***************************************************************************)
Accounts == {"alice", "bob"}
Vault == "vault"
Asset == "asset"
Recipients == Accounts \cup {Vault}
TokenIds == {Asset, Vault}
Amounts == -1 .. MaxAmount
Times == 0 .. MaxTime

DataKey == {"Owner", "TokenId", "UnlockTimestamp", "LockedAmount"}

\* Values an entry point returns: (), an integer or an address.
Unit == [kind |-> "unit", int |-> 0, addr |-> ""]
Num(n) == [kind |-> "int", int |-> n, addr |-> ""]
Addr(a) == [kind |-> "address", int |-> 0, addr |-> a]
NoError == "None"

(***************************************************************************)
(* Instance storage: a partial map from DataKey.                           *)
(***************************************************************************)
has(st, key) == key \in DOMAIN st

get(st, key) == st[key]

set(st, key, val) ==
  [k \in (DOMAIN st) \cup {key} |-> IF k = key THEN val ELSE st[k]]

EmptyStorage == [k \in {} |-> 0]

(***************************************************************************)
(* Host services.                                                          *)
(***************************************************************************)
Env(signer) ==
  [storage |-> storage, bal |-> bal, timestamp |-> now, signer |-> signer]

\* Address::require_auth: the invocation carries the address's authorization.
require_auth_skipped(env, address) == TRUE

require_auth(env, address) == env.signer = address

\* A panic: the invocation ends with an error; env is the state it leaves.
Panic(err, env) == [err |-> err, env |-> env, ret |-> Unit]

Return(env, ret) == [err |-> NoError, env |-> env, ret |-> ret]

checked_add_exclusive(a, b) ==
  IF a + b >= I128_MAX \/ a + b < I128_MIN THEN <<>> ELSE <<a + b>>

checked_add(a, b) ==
  IF a + b > I128_MAX \/ a + b < I128_MIN THEN <<>> ELSE <<a + b>>

checked_sub_pasted(a, b) ==
  IF a + b > I128_MAX \/ a + b < I128_MIN THEN <<>> ELSE <<a + b>>

checked_sub(a, b) ==
  IF a - b > I128_MAX \/ a - b < I128_MIN THEN <<>> ELSE <<a - b>>

(***************************************************************************)
(* token::Client::transfer on the token contract at token_id.  `invoker`   *)
(* is the contract making the call ("" for a call made by an account).     *)
(* The result is <<>> when the call fails, else <<balances after>>.        *)
(***************************************************************************)
transfer_unbounded(env, token_id, invoker, from, to, amount) ==
  IF token_id # Asset THEN <<>>
  ELSE IF ~(from = invoker \/ require_auth(env, from)) THEN <<>>
  ELSE IF amount < 0 THEN <<>>
  ELSE IF env.bal[from] < amount THEN <<>>
  ELSE IF from = to THEN <<env.bal>>
  ELSE <<[env.bal EXCEPT ![from] = @ - amount, ![to] = @ + amount]>>

transfer(env, token_id, invoker, from, to, amount) ==
  IF token_id # Asset THEN <<>>
  ELSE IF ~(from = invoker \/ require_auth(env, from)) THEN <<>>
  ELSE IF amount < 0 THEN <<>>
  ELSE IF env.bal[from] < amount THEN <<>>
  ELSE IF from # to /\ env.bal[to] + amount > I128_MAX THEN <<>>
  ELSE IF from = to THEN <<env.bal>>
  ELSE <<[env.bal EXCEPT ![from] = @ - amount, ![to] = @ + amount]>>

(***************************************************************************)
(* The contract's entry points.  Each maps the environment at entry to     *)
(* the error (or NoError), the environment at exit and the value returned. *)
(***************************************************************************)
initialize_unguarded(env, owner, token_id, unlock_timestamp) ==
  LET s1 == set(env.storage, "Owner", owner)
      s2 == set(s1, "TokenId", token_id)
      s3 == set(s2, "UnlockTimestamp", unlock_timestamp)
      s4 == set(s3, "LockedAmount", 0)
  IN  Return([env EXCEPT !.storage = s4], Unit)

initialize_no_ledger(env, owner, token_id, unlock_timestamp) ==
  IF has(env.storage, "Owner")
  THEN Panic("AlreadyInitialized", env)
  ELSE LET s1 == set(env.storage, "Owner", owner)
           s2 == set(s1, "TokenId", token_id)
           s3 == set(s2, "UnlockTimestamp", unlock_timestamp)
       IN  Return([env EXCEPT !.storage = s3], Unit)

initialize(env, owner, token_id, unlock_timestamp) ==
  IF has(env.storage, "Owner")
  THEN Panic("AlreadyInitialized", env)
  ELSE LET s1 == set(env.storage, "Owner", owner)
           s2 == set(s1, "TokenId", token_id)
           s3 == set(s2, "UnlockTimestamp", unlock_timestamp)
           s4 == set(s3, "LockedAmount", 0)
       IN  Return([env EXCEPT !.storage = s4], Unit)

amount_invalid_off_by_one(amount) == amount < 0

amount_invalid(amount) == amount <= 0

deposit_try_transfer(env, from, amount) ==
  IF ~require_auth(env, from) THEN Panic("Unauthorized", env)
  ELSE IF amount_invalid(amount) THEN Panic("InvalidAmount", env)
  ELSE IF ~has(env.storage, "TokenId") THEN Panic("NotInitialized", env)
  ELSE
    LET token_id == get(env.storage, "TokenId")
        moved == transfer(env, token_id, Vault, from, Vault, amount)
        env1 == IF moved = <<>> THEN env ELSE [env EXCEPT !.bal = moved[1]]
    IN  IF ~has(env1.storage, "LockedAmount")
        THEN Panic("NotInitialized", env1)
        ELSE
          LET locked_amount ==
                checked_add(get(env1.storage, "LockedAmount"), amount)
          IN  IF locked_amount = <<>> THEN Panic("Overflow", env1)
              ELSE Return([env1 EXCEPT !.storage =
                             set(@, "LockedAmount", locked_amount[1])], Unit)

deposit(env, from, amount) ==
  IF ~require_auth(env, from) THEN Panic("Unauthorized", env)
  ELSE IF amount_invalid(amount) THEN Panic("InvalidAmount", env)
  ELSE IF ~has(env.storage, "TokenId") THEN Panic("NotInitialized", env)
  ELSE
    LET token_id == get(env.storage, "TokenId")
        moved == transfer(env, token_id, Vault, from, Vault, amount)
    IN  IF moved = <<>> THEN Panic("TransferFailed", env)
        ELSE
          LET env1 == [env EXCEPT !.bal = moved[1]]
          IN  IF ~has(env1.storage, "LockedAmount")
              THEN Panic("NotInitialized", env1)
              ELSE
                LET locked_amount ==
                      checked_add(get(env1.storage, "LockedAmount"), amount)
                IN  IF locked_amount = <<>> THEN Panic("Overflow", env1)
                    ELSE Return([env1 EXCEPT !.storage =
                                   set(@, "LockedAmount", locked_amount[1])],
                                Unit)

still_locked_inverted(current_ledger_time, unlock_timestamp) ==
  current_ledger_time > unlock_timestamp

still_locked_inclusive(current_ledger_time, unlock_timestamp) ==
  current_ledger_time <= unlock_timestamp

still_locked(current_ledger_time, unlock_timestamp) ==
  current_ledger_time < unlock_timestamp

insufficient_unchecked(amount, locked_amount) == FALSE

insufficient(amount, locked_amount) == amount > locked_amount

withdraw_amount_first(env, to, amount) ==
  IF amount_invalid(amount) THEN Panic("InvalidAmount", env)
  ELSE IF ~has(env.storage, "Owner") THEN Panic("NotInitialized", env)
  ELSE IF ~require_auth(env, get(env.storage, "Owner"))
  THEN Panic("Unauthorized", env)
  ELSE IF ~has(env.storage, "UnlockTimestamp")
  THEN Panic("NotInitialized", env)
  ELSE IF still_locked(env.timestamp, get(env.storage, "UnlockTimestamp"))
  THEN Panic("StillLocked", env)
  ELSE IF ~has(env.storage, "LockedAmount") THEN Panic("NotInitialized", env)
  ELSE IF insufficient(amount, get(env.storage, "LockedAmount"))
  THEN Panic("InsufficientFunds", env)
  ELSE IF ~has(env.storage, "TokenId") THEN Panic("NotInitialized", env)
  ELSE
    LET token_id == get(env.storage, "TokenId")
        moved == transfer(env, token_id, Vault, Vault, to, amount)
    IN  IF moved = <<>> THEN Panic("TransferFailed", env)
        ELSE
          LET env1 == [env EXCEPT !.bal = moved[1]]
              locked_amount ==
                checked_sub(get(env1.storage, "LockedAmount"), amount)
          IN  IF locked_amount = <<>> THEN Panic("Underflow", env1)
              ELSE Return([env1 EXCEPT !.storage =
                             set(@, "LockedAmount", locked_amount[1])], Unit)

withdraw(env, to, amount) ==
  IF ~has(env.storage, "Owner") THEN Panic("NotInitialized", env)
  ELSE IF ~require_auth(env, get(env.storage, "Owner"))
  THEN Panic("Unauthorized", env)
  ELSE IF amount_invalid(amount) THEN Panic("InvalidAmount", env)
  ELSE IF ~has(env.storage, "UnlockTimestamp")
  THEN Panic("NotInitialized", env)
  ELSE IF still_locked(env.timestamp, get(env.storage, "UnlockTimestamp"))
  THEN Panic("StillLocked", env)
  ELSE IF ~has(env.storage, "LockedAmount") THEN Panic("NotInitialized", env)
  ELSE IF insufficient(amount, get(env.storage, "LockedAmount"))
  THEN Panic("InsufficientFunds", env)
  ELSE IF ~has(env.storage, "TokenId") THEN Panic("NotInitialized", env)
  ELSE
    LET token_id == get(env.storage, "TokenId")
        moved == transfer(env, token_id, Vault, Vault, to, amount)
    IN  IF moved = <<>> THEN Panic("TransferFailed", env)
        ELSE
          LET env1 == [env EXCEPT !.bal = moved[1]]
              locked_amount ==
                checked_sub(get(env1.storage, "LockedAmount"), amount)
          IN  IF locked_amount = <<>> THEN Panic("Underflow", env1)
              ELSE Return([env1 EXCEPT !.storage =
                             set(@, "LockedAmount", locked_amount[1])], Unit)

get_locked_amount_expect(env) ==
  IF has(env.storage, "LockedAmount")
  THEN Return(env, Num(get(env.storage, "LockedAmount")))
  ELSE Panic("NotInitialized", env)

get_locked_amount(env) ==
  IF has(env.storage, "LockedAmount")
  THEN Return(env, Num(get(env.storage, "LockedAmount")))
  ELSE Return(env, Num(0))

get_unlock_time(env) ==
  IF has(env.storage, "UnlockTimestamp")
  THEN Return(env, Num(get(env.storage, "UnlockTimestamp")))
  ELSE Panic("NotInitialized", env)

get_owner_pasted(env) ==
  IF has(env.storage, "TokenId")
  THEN Return(env, Addr(get(env.storage, "TokenId")))
  ELSE Panic("NotInitialized", env)

get_owner(env) ==
  IF has(env.storage, "Owner")
  THEN Return(env, Addr(get(env.storage, "Owner")))
  ELSE Panic("NotInitialized", env)

get_token_id(env) ==
  IF has(env.storage, "TokenId")
  THEN Return(env, Addr(get(env.storage, "TokenId")))
  ELSE Panic("NotInitialized", env)

(***************************************************************************)
(* One invocation: the host commits the exit state when the entry point    *)
(* returned, and reverts to the entry state when it panicked.              *)
(***************************************************************************)
Invoke(c, out) ==
  /\ call' = c
  /\ result' = [err |-> out.err, ret |-> out.ret]
  /\ IF out.err = NoError
     THEN storage' = out.env.storage /\ bal' = out.env.bal
     ELSE UNCHANGED <<storage, bal>>
  /\ UNCHANGED now

Init ==
  /\ storage = EmptyStorage
  /\ bal = [a \in Recipients |-> IF a \in Accounts THEN InitBalance ELSE 0]
  /\ now = 0
  /\ call = [op |-> "none"]
  /\ result = [err |-> NoError, ret |-> Unit]
  /\ deposited = 0
  /\ withdrawn = 0
  /\ inits = <<>>

Initialize(owner, token_id, unlock_timestamp) ==
  LET out == initialize(Env(""), owner, token_id, unlock_timestamp)
  IN  /\ Invoke([op |-> "initialize", owner |-> owner, token_id |-> token_id,
                 unlock_timestamp |-> unlock_timestamp], out)
      /\ inits' = IF out.err = NoError
                  THEN Append(inits, [owner |-> owner, token_id |-> token_id,
                                      unlock_timestamp |-> unlock_timestamp])
                  ELSE inits
      /\ UNCHANGED <<deposited, withdrawn>>

Deposit(signer, from, amount) ==
  LET out == deposit(Env(signer), from, amount)
  IN  /\ out.err = NoError => deposited + amount <= MaxVolume
      /\ Invoke([op |-> "deposit", signer |-> signer, from |-> from,
                 amount |-> amount], out)
      /\ deposited' = IF out.err = NoError THEN deposited + amount
                      ELSE deposited
      /\ UNCHANGED <<withdrawn, inits>>

Withdraw(signer, to, amount) ==
  LET out == withdraw(Env(signer), to, amount)
  IN  /\ Invoke([op |-> "withdraw", signer |-> signer, to |-> to,
                 amount |-> amount], out)
      /\ withdrawn' = IF out.err = NoError THEN withdrawn + amount
                      ELSE withdrawn
      /\ UNCHANGED <<deposited, inits>>

GetLockedAmount ==
  /\ Invoke([op |-> "get_locked_amount"], get_locked_amount(Env("")))
  /\ UNCHANGED <<deposited, withdrawn, inits>>

GetUnlockTime ==
  /\ Invoke([op |-> "get_unlock_time"], get_unlock_time(Env("")))
  /\ UNCHANGED <<deposited, withdrawn, inits>>

GetOwner ==
  /\ Invoke([op |-> "get_owner"], get_owner(Env("")))
  /\ UNCHANGED <<deposited, withdrawn, inits>>

GetTokenId ==
  /\ Invoke([op |-> "get_token_id"], get_token_id(Env("")))
  /\ UNCHANGED <<deposited, withdrawn, inits>>

\* The ledger closes: time moves on.
Tick ==
  /\ now < MaxTime
  /\ now' = now + 1
  /\ call' = [op |-> "tick"]
  /\ result' = [err |-> NoError, ret |-> Unit]
  /\ UNCHANGED <<storage, bal, deposited, withdrawn, inits>>

\* An account moves its own tokens at the token contract, outside the vault.
TokenTransfer(from, to, amount) ==
  LET moved == transfer(Env(from), Asset, "", from, to, amount)
  IN  /\ amount > 0
      /\ moved # <<>>
      /\ bal' = moved[1]
      /\ call' = [op |-> "token_transfer"]
      /\ result' = [err |-> NoError, ret |-> Unit]
      /\ UNCHANGED <<storage, now, deposited, withdrawn, inits>>

Next ==
  \/ \E o \in Accounts, t \in TokenIds, u \in Times : Initialize(o, t, u)
  \/ \E s \in Accounts, f \in Recipients, a \in Amounts : Deposit(s, f, a)
  \/ \E s \in Accounts, t \in Recipients, a \in Amounts : Withdraw(s, t, a)
  \/ GetLockedAmount
  \/ GetUnlockTime
  \/ GetOwner
  \/ GetTokenId
  \/ Tick
  \/ \E f \in Accounts, t \in Recipients, a \in Amounts :
       TokenTransfer(f, t, a)

(***************************************************************************)
(* Views of the state used by the properties.                              *)
(***************************************************************************)
Initialized == has(storage, "Owner")

Locked == IF has(storage, "LockedAmount") THEN storage["LockedAmount"] ELSE 0

Spec == Init /\ [][Next]_vars

\* The owner asks for everything that is locked, and the call succeeds.
OwnerWithdrawAll ==
  /\ Initialized
  /\ Locked > 0
  /\ \E to \in Recipients :
       /\ withdraw(Env(storage["Owner"]), to, Locked).err = NoError
       /\ Withdraw(storage["Owner"], to, Locked)

\* The steps of the liveness argument: every call that changes the contract
\* or the token (by any party), the passing of time, and failing calls (a
\* withdraw by anyone, for any positive amount, to themselves).
LiveNext ==
  \/ \E o \in Accounts, t \in TokenIds, u \in Times :
       initialize(Env(""), o, t, u).err = NoError /\ Initialize(o, t, u)
  \/ \E s \in Accounts, a \in Amounts :
       deposit(Env(s), s, a).err = NoError /\ Deposit(s, s, a)
  \/ \E s \in Accounts, t \in Recipients, a \in 1 .. MaxAmount :
       (withdraw(Env(s), t, a).err = NoError \/ t = s) /\ Withdraw(s, t, a)
  \/ Tick
  \/ \E f \in Accounts, t \in Recipients, a \in Amounts :
       TokenTransfer(f, t, a)
  \/ OwnerWithdrawAll

\* Fairness is about steps that change the contract, the token or the time.
ledger == <<storage, bal, now>>

\* Time keeps moving up to the end of the modelled range, and the owner
\* does not put off a full withdrawal for ever once it is possible.

LiveSpec ==
  Init /\ [][LiveNext]_vars /\ WF_ledger(Tick) /\ WF_ledger(OwnerWithdrawAll)

\* C1: in every reachable state the stored locked_amount equals the sum of
\* the successful deposits minus the sum of the successful withdrawals (no
\* deposit or withdrawal has succeeded while nothing is stored), and it is 0
\* right after a successful initialize.
C1_LedgerIsNet ==
  /\ has(storage, "LockedAmount") =>
       storage["LockedAmount"] = deposited - withdrawn
  /\ ~has(storage, "LockedAmount") => deposited = 0 /\ withdrawn = 0
  /\ (call.op = "initialize" /\ result.err = NoError) =>
       storage["LockedAmount"] = 0

C1_Witness ==
  /\ call.op = "withdraw" /\ result.err = NoError
  /\ deposited = 3 /\ withdrawn = 1
  /\ has(storage, "LockedAmount") /\ storage["LockedAmount"] = 2

\* C2: while the ledger time is below the stored unlock time no withdraw
\* succeeds, and no step decreases locked_amount or the vault's token balance.
C2_NoReleaseBeforeUnlock ==
  [][(has(storage, "UnlockTimestamp") /\ now < storage["UnlockTimestamp"]) =>
       /\ ~(call'.op = "withdraw" /\ result'.err = NoError)
       /\ Locked' >= Locked
       /\ bal'[Vault] >= bal[Vault]]_vars

C2_Witness ==
  /\ call.op = "withdraw" /\ result.err = "StillLocked"
  /\ Initialized /\ now < storage["UnlockTimestamp"]
  /\ call.amount = storage["LockedAmount"]
  /\ bal[Vault] >= call.amount

\* C3: on an initialized vault a withdraw not authorized by the stored owner
\* fails with Unauthorized and changes neither the storage nor any balance;
\* every step that decreases locked_amount is a withdraw authorized by the
\* owner that initialize stored.
C3_OnlyOwnerWithdraws ==
  [][/\ (call'.op = "withdraw" /\ Initialized
          /\ call'.signer # storage["Owner"]) =>
          (result'.err = "Unauthorized" /\ UNCHANGED <<storage, bal>>)
     /\ Locked' < Locked =>
          /\ call'.op = "withdraw"
          /\ inits # <<>>
          /\ call'.signer = inits[1].owner]_vars

C3_Witness ==
  /\ call.op = "withdraw" /\ result.err = "Unauthorized"
  /\ Initialized /\ call.signer # storage["Owner"]
  /\ call.amount > 0 /\ call.amount <= storage["LockedAmount"]
  /\ now >= storage["UnlockTimestamp"]

\* C4: the stored locked_amount is never negative and never above the
\* largest i128.
C4_LockedInRange ==
  has(storage, "LockedAmount") =>
    (storage["LockedAmount"] >= 0 /\ storage["LockedAmount"] <= I128_MAX)

C4_Witness ==
  /\ has(storage, "LockedAmount") /\ storage["LockedAmount"] = I128_MAX
  /\ call.op = "deposit" /\ call.amount > 0 /\ call.signer = call.from
  /\ bal[call.from] >= call.amount
  /\ result.err # NoError

\* C5: initialize succeeds when the vault is uninitialized and at most once;
\* on an initialized vault every initialize fails with AlreadyInitialized
\* and leaves the four stored fields (and the balances) unchanged.
C5_InitializeOnce ==
  /\ [](Len(inits) <= 1)
  /\ [][call'.op = "initialize" =>
          IF Initialized
          THEN result'.err = "AlreadyInitialized"
               /\ UNCHANGED <<storage, bal>>
          ELSE result'.err = NoError
               /\ DOMAIN storage' = DataKey]_vars

C5_Witness ==
  /\ call.op = "initialize" /\ result.err = "AlreadyInitialized"
  /\ Initialized /\ storage["LockedAmount"] > 0
  /\ call.owner # storage["Owner"]
  /\ call.token_id # storage["TokenId"]
  /\ call.unlock_timestamp # storage["UnlockTimestamp"]

\* C6: once initialize(owner, token_id, unlock_timestamp) has succeeded, the
\* stored owner, token id and unlock time are those arguments in every later
\* state, and get_owner, get_token_id and get_unlock_time return them.
C6_ConfigurationFixed ==
  inits # <<>> =>
    /\ storage["Owner"] = inits[1].owner
    /\ storage["TokenId"] = inits[1].token_id
    /\ storage["UnlockTimestamp"] = inits[1].unlock_timestamp
    /\ call.op = "get_owner" =>
         (result.err = NoError /\ result.ret = Addr(inits[1].owner))
    /\ call.op = "get_token_id" =>
         (result.err = NoError /\ result.ret = Addr(inits[1].token_id))
    /\ call.op = "get_unlock_time" =>
         (result.err = NoError /\ result.ret = Num(inits[1].unlock_timestamp))

C6_Witness ==
  /\ call.op = "get_owner" /\ result.err = NoError
  /\ inits # <<>> /\ result.ret = Addr(inits[1].owner)
  /\ deposited > 0 /\ withdrawn > 0

\* C7: a call that fails leaves the storage and every token balance as they
\* were; a deposit whose depositor holds less than the amount fails and does
\* not increase locked_amount.
C7_FailureChangesNothing ==
  [][/\ result'.err # NoError => UNCHANGED <<storage, bal>>
     /\ (call'.op = "deposit" /\ call'.amount > 0
          /\ bal[call'.from] < call'.amount) =>
          (result'.err # NoError /\ Locked' = Locked)]_vars

C7_Witness ==
  /\ call.op = "deposit" /\ result.err = "TransferFailed"
  /\ call.signer = call.from /\ call.amount > bal[call.from]
  /\ Initialized /\ storage["TokenId"] = Asset

\* C8 as stated: on an initialized vault a withdraw with amount > 0 made
\* before the unlock time fails with StillLocked, whoever the caller is.
C8_Original ==
  [][(call'.op = "withdraw" /\ Initialized
       /\ now < storage["UnlockTimestamp"] /\ call'.amount > 0) =>
       result'.err = "StillLocked"]_vars

\* C8: on an initialized vault a withdraw authorized by the owner, with
\* amount > 0, made before the unlock time fails with StillLocked whatever
\* the amount and the recipient, and changes nothing.
C8_StillLockedForOwner ==
  [][(call'.op = "withdraw" /\ Initialized
       /\ call'.signer = storage["Owner"]
       /\ now < storage["UnlockTimestamp"] /\ call'.amount > 0) =>
       (result'.err = "StillLocked" /\ UNCHANGED <<storage, bal>>)]_vars

C8_Witness ==
  /\ call.op = "withdraw" /\ result.err = "StillLocked"
  /\ Initialized /\ call.signer = storage["Owner"]
  /\ now < storage["UnlockTimestamp"]
  /\ call.amount > storage["LockedAmount"]
  /\ call.to # storage["Owner"]

\* C9 as stated: a deposit or withdraw with amount <= 0 fails with
\* InvalidAmount and changes nothing, in every state and for every caller.
C9_Original ==
  [][(call'.op \in {"deposit", "withdraw"} /\ call'.amount <= 0) =>
       (result'.err = "InvalidAmount" /\ UNCHANGED <<storage, bal>>)]_vars

\* C9: a deposit or withdraw with amount <= 0 fails and changes nothing; the
\* error is InvalidAmount when the deposit is authorized by its depositor,
\* and when the withdraw is made on an initialized vault and authorized by
\* the owner.
C9_InvalidAmount ==
  [][(call'.op \in {"deposit", "withdraw"} /\ call'.amount <= 0) =>
       /\ result'.err # NoError
       /\ UNCHANGED <<storage, bal>>
       /\ (call'.op = "deposit" /\ call'.signer = call'.from) =>
            result'.err = "InvalidAmount"
       /\ (call'.op = "withdraw" /\ Initialized
            /\ call'.signer = storage["Owner"]) =>
            result'.err = "InvalidAmount"]_vars

C9_Witness ==
  /\ call.op = "withdraw" /\ result.err = "InvalidAmount"
  /\ call.amount = 0
  /\ Initialized /\ call.signer = storage["Owner"]
  /\ now >= storage["UnlockTimestamp"] /\ storage["LockedAmount"] > 0

\* C10: on an initialized vault a withdraw authorized by the owner, with
\* amount > 0, at a time >= the unlock time, for more than locked_amount
\* fails with InsufficientFunds and leaves locked_amount unchanged.
C10_InsufficientFunds ==
  [][(call'.op = "withdraw" /\ Initialized
       /\ call'.signer = storage["Owner"] /\ call'.amount > 0
       /\ now >= storage["UnlockTimestamp"]
       /\ call'.amount > storage["LockedAmount"]) =>
       (result'.err = "InsufficientFunds" /\ UNCHANGED <<storage, bal>>)]_vars

\* everything deposited has been withdrawn, and one more unit is asked for
C10_Witness ==
  /\ call.op = "withdraw" /\ result.err = "InsufficientFunds"
  /\ call.amount = 1 /\ call.signer = storage["Owner"]
  /\ deposited = MaxVolume /\ withdrawn = MaxVolume
  /\ storage["LockedAmount"] = 0

\* The balance an address holds of the asset the vault is configured with
\* (nothing when the configured address is not a token contract).
Holding(a) ==
  IF has(storage, "TokenId") /\ storage["TokenId"] = Asset THEN bal[a] ELSE 0

Accessors ==
  {"get_locked_amount", "get_unlock_time", "get_owner", "get_token_id"}

\* C13: while no initialize has succeeded, get_locked_amount returns 0
\* without failing and get_unlock_time, get_owner and get_token_id fail with
\* NotInitialized; no accessor call changes the storage or a balance.
C13_AccessorsBeforeInitialize ==
  [][call'.op \in Accessors =>
       /\ UNCHANGED <<storage, bal, now>>
       /\ (inits = <<>> /\ call'.op = "get_locked_amount") =>
            (result'.err = NoError /\ result'.ret = Num(0))
       /\ (inits = <<>> /\ call'.op # "get_locked_amount") =>
            result'.err = "NotInitialized"]_vars

C13_Witness ==
  /\ call.op = "get_locked_amount" /\ result.err = NoError
  /\ result.ret = Num(0)
  /\ inits = <<>> /\ ~Initialized
  /\ bal[Vault] > 0

\* C14: on an initialized vault the error of a withdraw is the first that
\* applies of Unauthorized (not authorized by the owner), InvalidAmount
\* (amount <= 0), StillLocked (time < unlock time), InsufficientFunds
\* (amount > locked_amount); a withdraw that passes these four reports none
\* of them; a failing withdraw changes nothing.
C14_ErrorOrder ==
  [][(call'.op = "withdraw" /\ Initialized) =>
       /\ IF call'.signer # storage["Owner"]
          THEN result'.err = "Unauthorized"
          ELSE IF call'.amount <= 0
          THEN result'.err = "InvalidAmount"
          ELSE IF now < storage["UnlockTimestamp"]
          THEN result'.err = "StillLocked"
          ELSE IF call'.amount > storage["LockedAmount"]
          THEN result'.err = "InsufficientFunds"
          ELSE result'.err \in {NoError, "TransferFailed", "Underflow"}
       /\ result'.err # NoError => UNCHANGED <<storage, bal>>]_vars

\* three preconditions violated at once: the first is reported
C14_Witness ==
  /\ call.op = "withdraw" /\ result.err = "Unauthorized"
  /\ Initialized /\ call.signer # storage["Owner"]
  /\ call.amount <= 0
  /\ now < storage["UnlockTimestamp"]

C18_UnderflowUnreachable ==
  /\ result.err # "Underflow"
  /\ \A s \in Accounts, x \in Recipients, a \in I128_MIN .. I128_MAX :
       LET w == withdraw(Env(s), x, a)
       IN  /\ w.err # "Underflow"
           /\ w.err = NoError => (0 < a /\ a <= Locked)

\* the whole locked_amount withdrawn to the vault's own address
C18_Witness ==
  /\ call.op = "withdraw" /\ result.err = NoError
  /\ call.to = Vault /\ call.amount = MaxAmount
  /\ storage["LockedAmount"] = 0
  /\ bal[Vault] = call.amount

\* C19: on an initialized vault the vault's balance of the configured asset
\* is at least locked_amount in every reachable state, and a withdraw whose
\* token transfer fails did not fail for lack of vault balance.
C19_Solvency ==
  /\ [](Initialized => Holding(Vault) >= Locked)
  /\ [][(call'.op = "withdraw" /\ result'.err = "TransferFailed") =>
          Holding(Vault) >= call'.amount]_vars

\* after a withdrawal to the vault's own address the vault holds more than
\* it has locked
C19_Witness ==
  /\ call.op = "withdraw" /\ result.err = NoError /\ call.to = Vault
  /\ storage["LockedAmount"] > 0
  /\ bal[Vault] = storage["LockedAmount"] + withdrawn
  /\ bal[Vault] = I128_MAX

\* C20: in every reachable state with locked_amount > 0 and the time at or
\* past the unlock time, a withdraw of the whole locked_amount authorized by
\* the owner succeeds for some recipient; and, time moving on and the owner's
\* full withdrawal being weakly fair, locked_amount > 0 leads to
\* locked_amount = 0.
C20_FundsNotStuck ==
  /\ []((Initialized /\ Locked > 0 /\ now >= storage["UnlockTimestamp"]) =>
          \E to \in Recipients :
            withdraw(Env(storage["Owner"]), to, Locked).err = NoError)
  /\ (Locked > 0) ~> (Locked = 0)

\* the owner took everything in one call after others kept depositing
C20_Witness ==
  /\ call.op = "withdraw" /\ result.err = NoError
  /\ call.signer = storage["Owner"]
  /\ call.amount = MaxVolume /\ deposited = MaxVolume
  /\ storage["LockedAmount"] = 0
  /\ storage["UnlockTimestamp"] > 0

====
